---- MODULE Spec2Model ----
(***************************************************************************)
(* Persistent van Emde Boas tree (pveb/_pveb.py).                          *)
(*                                                                         *)
(* Nodes are objects: they live in a heap (a sequence of node records,     *)
(* addressed by position, None = 0).  PVeb._Node(...) and _Node.copy()     *)
(* allocate, an attribute assignment writes the heap at the address of the *)
(* object.  The persistent maps of pyrsistent (cluster, map) are immutable *)
(* values and are modelled as functions.  A Python exception is the        *)
(* result field err = TRUE (st = "raise" for the queries).                 *)
(*                                                                         *)
(* H is the handle the program holds.  The PVeb objects themselves live in *)
(* handles (addressed by position, self is the address of H), so that the  *)
(* memo table of pveb/__init__.py (cache) can hold on to an object.  made  *)
(* records the arguments and the outcome of the construction.              *)
(*                                                                         *)
(* threads holds the calls that run concurrently on H, each with its own   *)
(* stack of _set / _pop frames over the one shared heap; base is the heap  *)
(* and what H showed when they started.                                    *)
(***************************************************************************)
EXTENDS Integers, Sequences, FiniteSets, TLC

VARIABLES heap, H, ref, log, made, handles, self, cache, threads, base

vars == <<heap, H, ref, log, made, handles, self, cache, threads, base>>

\* ---------------------------------------------------------------- bounds
\* calls that return a new handle or raise, per behaviour
MaxOps == 4

\* ------------------------------------------------------------- constants
None == 0

NoData == 0

\* The code never inspects a value, it only stores and returns it: the n-th
\* recorded call stores the value n, so that no two set calls store the same
\* value and a value returned for the wrong key is visible.
Data == 1..(MaxOps + 1)

\* (lb, ub, c) of the handles explored: a leaf root (u = 4 <= threshold 4),
\* a branch root over leaves (u = 4 > 2) and a branch root over branches
\* (u = 8 > 2, children u = 3 > 2, grandchildren u = 2).
Configs ==
  { [lb |-> 0, ub |-> 3, c |-> 4],
    [lb |-> 2, ub |-> 5, c |-> 1],
    [lb |-> 1, ub |-> 8, c |-> 1] }

\* ------------------------------------------------------------ arithmetic
RECURSIVE Pow(_, _)
Pow(b, e) == IF e = 0 THEN 1 ELSE b * Pow(b, e - 1)

\* ceil(sqrt(u))
CeilSqrt(u) == CHOOSE r \in 0..u : r * r >= u /\ (r = 0 \/ (r - 1) * (r - 1) < u)

\* log2(u) for u a power of two
Log2(u) == CHOOSE l \in 0..u : Pow(2, l) = u

\* ceil(c * log2(l)) for l >= 1: the least t with 2^t >= l^c
CeilCLog2(c, l) == CHOOSE t \in 0..(c * l) : Pow(2, t) >= Pow(l, c) /\ (t = 0 \/ Pow(2, t - 1) < Pow(l, c))

\* ceil(c * log2(log2(u))) for u >= 2.  log2(u) is irrational unless u is a
\* power of two, so the value is computed exactly in two cases: for c = 1 it
\* is the least t with 2^(2^t) >= u, and for u a power of two it is
\* ceil(c * log2(l)) with l = log2(u).
CeilCLogLog(c, u) ==
  IF c = 1
  THEN CHOOSE t \in 0..u : Pow(2, Pow(2, t)) >= u /\ (t = 0 \/ Pow(2, Pow(2, t - 1)) < u)
  ELSE CeilCLog2(c, Log2(u))

Max2(a, b) == IF a >= b THEN a ELSE b

\* --------------------------------------------------------- pyrsistent pmap
EmptyMap == [k \in {} |-> None]

PIn(m, k) == k \in DOMAIN m

\* a lookup that never finds the key
PGetMiss(m, k, default) == default

PGet(m, k, default) == IF k \in DOMAIN m THEN m[k] ELSE default

PSet(m, k, v) == [j \in (DOMAIN m) \cup {k} |-> IF j = k THEN v ELSE m[j]]

PPop(m, k) == [j \in (DOMAIN m) \ {k} |-> m[j]]

\* sorted(m.keys())
RECURSIVE Sorted(_)
Sorted(S) ==
  IF S = {} THEN <<>>
  ELSE LET lo == CHOOSE k \in S : \A j \in S : k <= j
       IN <<lo>> \o Sorted(S \ {lo})

\* a bisect_right that stops before the entries equal to x
bisect_rightStrict(keys, x) == Cardinality({j \in 1..Len(keys) : keys[j] < x})

\* bisect_right(keys, x): the insertion point after every entry <= x
bisect_right(keys, x) == Cardinality({j \in 1..Len(keys) : keys[j] <= x})

\* bisect_left(keys, x): the insertion point before every entry >= x
bisect_left(keys, x) == Cardinality({j \in 1..Len(keys) : keys[j] < x})

\* --------------------------------------------------------------- _Node
\* PVeb._Node.__init__: a fresh object holding the single element x
_Node(hp, x, u, threshold, data) ==
  LET n == [min |-> x, max |-> x, min_data |-> data, max_data |-> data,
            u |-> u, threshold |-> threshold,
            cluster |-> EmptyMap, summary |-> None,
            map |-> IF u > threshold THEN EmptyMap ELSE PSet(EmptyMap, x, data)]
  IN [heap |-> Append(hp, n), node |-> Len(hp) + 1]

\* a copy that hands back the object itself
copyAlias(hp, V) == [heap |-> hp, node |-> V]

\* PVeb._Node.copy: a new object with the same fields, maps shared
copy(hp, V) == [heap |-> Append(hp, hp[V]), node |-> Len(hp) + 1]

_hierarchical_coords(x, u) == <<x \div u, x % u>>

_index_of(i, j, u) == i * u + j

\* ---------------------------------------------------------------- _set
RECURSIVE _set(_, _, _, _, _, _)
_set(hp, V, x, u, threshold, data) ==
  IF V = None THEN _Node(hp, x, u, threshold, data)
  ELSE IF x = hp[V].min \/ x = hp[V].max THEN [heap |-> hp, node |-> V]
  ELSE
    LET cp == copy(hp, V)
        W  == cp.node
        h0 == cp.heap
    IN IF u > threshold
       THEN
         LET lt == x < h0[W].min
             gt == ~lt /\ x > h0[W].max
             x1 == IF lt THEN h0[W].min ELSE x
             data1 == IF lt THEN h0[W].min_data ELSE data
             h1 == IF lt THEN [h0 EXCEPT ![W].min = x, ![W].min_data = data]
                   ELSE IF gt THEN [h0 EXCEPT ![W].max = x, ![W].max_data = data]
                   ELSE h0
             new_u == CeilSqrt(u)
             ci == _hierarchical_coords(x1, new_u)
             c == ci[1]
             i == ci[2]
             s == IF ~PIn(h1[W].cluster, c)
                  THEN _set(h1, h1[W].summary, c, new_u, threshold, data1)
                  ELSE [heap |-> h1, node |-> h1[W].summary]
             h2 == [s.heap EXCEPT ![W].summary = s.node]
             ch == _set(h2, PGet(h2[W].cluster, c, None), i, new_u, threshold, data1)
             h3 == [ch.heap EXCEPT ![W].cluster = PSet(h2[W].cluster, c, ch.node)]
         IN [heap |-> h3, node |-> W]
       ELSE
         LET h1 == IF x < h0[W].min THEN [h0 EXCEPT ![W].min = x, ![W].min_data = data]
                   ELSE IF x > h0[W].max THEN [h0 EXCEPT ![W].max = x, ![W].max_data = data]
                   ELSE h0
             h2 == [h1 EXCEPT ![W].map = PSet(h1[W].map, x, data)]
         IN [heap |-> h2, node |-> W]

\* ---------------------------------------------------------------- _get
RECURSIVE _get(_, _, _, _, _)
_get(hp, V, x, u, threshold) ==
  IF V # None
  THEN IF u > threshold
       THEN IF x = hp[V].min THEN [found |-> TRUE, data |-> hp[V].min_data]
            ELSE IF x = hp[V].max THEN [found |-> TRUE, data |-> hp[V].max_data]
            ELSE LET new_u == CeilSqrt(u)
                     ci == _hierarchical_coords(x, new_u)
                 IN _get(hp, PGet(hp[V].cluster, ci[1], None), ci[2], new_u, threshold)
       ELSE IF PIn(hp[V].map, x) THEN [found |-> TRUE, data |-> hp[V].map[x]]
            ELSE [found |-> FALSE, data |-> NoData]
  ELSE [found |-> FALSE, data |-> NoData]

\* ---------------------------------------------------------------- _pop
\* the result of a call that raised (KeyError of a map lookup or map pop)
Raised(hp) == [heap |-> hp, node |-> None, err |-> TRUE]

Returned(hp, V) == [heap |-> hp, node |-> V, err |-> FALSE]

\* tail of the branch case of _pop: lines 162-168, V.max and V.max_data
popRefreshMax(hp, W, new_u) ==
  IF hp[W].summary = None
  THEN Returned([hp EXCEPT ![W].max = hp[W].min, ![W].max_data = hp[W].min_data], W)
  ELSE LET c == hp[hp[W].summary].max
       IN IF ~PIn(hp[W].cluster, c) THEN Raised(hp)
          ELSE Returned([hp EXCEPT ![W].max = _index_of(c, hp[hp[W].cluster[c]].max, new_u),
                                   ![W].max_data = hp[hp[W].cluster[c]].max_data], W)

RECURSIVE _pop(_, _, _, _, _)
_pop(hp, V, x, u, threshold) ==
  IF V = None THEN Returned(hp, V)
  ELSE
    LET cp == copy(hp, V)
        W  == cp.node
        h0 == cp.heap
    IN IF u > threshold
       THEN
         LET new_u == CeilSqrt(u)
             pull == x = h0[W].min
             c0 == h0[h0[W].summary].min
         IN IF pull /\ h0[W].summary = None THEN Returned(h0, None)
            ELSE IF pull /\ ~PIn(h0[W].cluster, c0) THEN Raised(h0)
            ELSE
              LET x1 == IF pull THEN _index_of(c0, h0[h0[W].cluster[c0]].min, new_u) ELSE x
                  h1 == IF pull
                        THEN [h0 EXCEPT ![W].min = x1,
                                        ![W].min_data = h0[h0[W].cluster[c0]].min_data]
                        ELSE h0
                  ci == _hierarchical_coords(x1, new_u)
                  c == ci[1]
                  i == ci[2]
              IN IF ~PIn(h1[W].cluster, c) THEN Raised(h1)
                 ELSE
                   LET t == _pop(h1, h1[W].cluster[c], i, new_u, threshold)
                   IN IF t.err THEN Raised(t.heap)
                      ELSE IF t.node = None
                      THEN
                        LET h2 == [t.heap EXCEPT ![W].cluster = PPop(t.heap[W].cluster, c)]
                            s == _pop(h2, h2[W].summary, c, new_u, threshold)
                        IN IF s.err THEN Raised(s.heap)
                           ELSE popRefreshMax([s.heap EXCEPT ![W].summary = s.node], W, new_u)
                      ELSE popRefreshMax(t.heap, W, new_u)
       ELSE
         IF ~PIn(h0[W].map, x) THEN Raised(h0)
         ELSE Returned([h0 EXCEPT ![W].map = PPop(h0[W].map, x)], W)

\* ---------------------------------------------------------- _successor
\* a query result: None, a (key, data) pair, or an exception
QNone == [st |-> "none", k |-> 0, data |-> NoData]

QPair(k, d) == [st |-> "pair", k |-> k, data |-> d]

QRaise == [st |-> "raise", k |-> 0, data |-> NoData]

RECURSIVE _successor(_, _, _, _, _)
_successor(hp, V, x, u, threshold) ==
  IF V = None THEN QNone
  ELSE IF u > threshold
  THEN
    IF x < hp[V].min THEN QPair(hp[V].min, hp[V].min_data)
    ELSE
      LET new_u == CeilSqrt(u)
          ci == _hierarchical_coords(x, new_u)
          c == ci[1]
          i == ci[2]
      IN IF PIn(hp[V].cluster, c) /\ i < hp[hp[V].cluster[c]].max
         THEN LET r == _successor(hp, hp[V].cluster[c], i, new_u, threshold)
              IN IF r.st = "pair" THEN QPair(_index_of(c, r.k, new_u), r.data)
                 ELSE QRaise
         ELSE LET r == _successor(hp, hp[V].summary, c, new_u, threshold)
              IN IF r.st = "raise" THEN QRaise
                 ELSE IF r.st = "none" THEN QNone
                 ELSE IF ~PIn(hp[V].cluster, r.k) THEN QRaise
                 ELSE QPair(_index_of(r.k, hp[hp[V].cluster[r.k]].min, new_u), r.data)
  ELSE
    IF Cardinality(DOMAIN hp[V].map) # 0
    THEN LET keys == Sorted(DOMAIN hp[V].map)
             index == bisect_right(keys, x)
         IN IF index < Cardinality(DOMAIN hp[V].map)
            THEN QPair(keys[index + 1], hp[V].map[keys[index + 1]])
            ELSE QNone
    ELSE QNone

\* -------------------------------------------------------- _predecessor
RECURSIVE _predecessor(_, _, _, _, _)
_predecessor(hp, V, x, u, threshold) ==
  IF V = None THEN QNone
  ELSE IF u > threshold
  THEN
    IF x > hp[V].max THEN QPair(hp[V].max, hp[V].max_data)
    ELSE
      LET new_u == CeilSqrt(u)
          ci == _hierarchical_coords(x, new_u)
          c == ci[1]
          i == ci[2]
      IN IF PIn(hp[V].cluster, c) /\ i > hp[hp[V].cluster[c]].min
         THEN LET r == _predecessor(hp, hp[V].cluster[c], i, new_u, threshold)
              IN IF r.st = "pair" THEN QPair(_index_of(c, r.k, new_u), r.data)
                 ELSE QRaise
         ELSE LET r == _predecessor(hp, hp[V].summary, c, new_u, threshold)
              IN IF r.st = "raise" THEN QRaise
                 ELSE IF r.st = "none" THEN QNone
                 ELSE IF ~PIn(hp[V].cluster, r.k) THEN QRaise
                 ELSE QPair(_index_of(r.k, hp[hp[V].cluster[r.k]].max, new_u), r.data)
  ELSE
    IF Cardinality(DOMAIN hp[V].map) # 0
    THEN LET keys == Sorted(DOMAIN hp[V].map)
             index == bisect_left(keys, x)
         IN IF index # 0
            THEN QPair(keys[index], hp[V].map[keys[index]])
            ELSE QNone
    ELSE QNone

\* ---------------------------------------------------------------- handle
\* PVeb.__init__: the empty handle
PVeb(lb, ub, c) ==
  LET u == ub - lb + 1
  IN [lb |-> lb, ub |-> ub, c |-> c, u |-> u,
      threshold |-> Max2(2, CeilCLogLog(c, u)),
      root |-> None, len |-> 0]

\* no PVeb object (before construction, or when construction raised)
NoHandle == [lb |-> 0, ub |-> 0 - 1, c |-> 0, u |-> 0, threshold |-> 0, root |-> None, len |-> 0]

\* PVeb(lb, ub, c) as a call: the assert of lines 51-57 fails unless lb <= ub
\* and c > 0, and for u = 1 log2(log2(u)) is log2(0.0), a ValueError
new(lb, ub, c) ==
  IF ~(lb <= ub /\ c > 0) THEN [st |-> "AssertionError", handle |-> NoHandle]
  ELSE IF ub - lb + 1 = 1 THEN [st |-> "ValueError", handle |-> NoHandle]
  ELSE [st |-> "ok", handle |-> PVeb(lb, ub, c)]

_check_x(h, x) == h.lb <= x /\ x <= h.ub

\* the result of an update: the handle returned, or an exception
Handle(hp, h) == [heap |-> hp, handle |-> h, err |-> FALSE]

HandleRaised(hp, h) == [heap |-> hp, handle |-> h, err |-> TRUE]

\* the new PVeb of lines 244-247, 255-258, 296-299, 311-314
rewrap(h, root, len) == [PVeb(h.lb, h.ub, h.c) EXCEPT !.root = root, !.len = len]

\* an update that writes the new root and len into the handle it was called on
deriveInPlace(hs, s, r) == [handles |-> [hs EXCEPT ![s] = r.handle], self |-> s]

\* the object an update returns: the handle itself (or none, if it raised),
\* else a new PVeb object that receives the new root and len
derive(hs, s, r) ==
  IF r.err \/ r.handle = hs[s] THEN [handles |-> hs, self |-> s]
  ELSE [handles |-> Append(hs, r.handle), self |-> Len(hs) + 1]

\* pveb(lb, ub, c) of pveb/__init__.py over the memo table ch
pveb(ch, hs, lb, ub, c) ==
  LET z == <<lb, ub, c>>
  IN IF z \in DOMAIN ch
     THEN [cache |-> ch, handles |-> hs, self |-> ch[z]]
     ELSE [cache |-> [y \in (DOMAIN ch) \cup {z} |-> IF y = z THEN Len(hs) + 1 ELSE ch[y]],
           handles |-> Append(hs, PVeb(lb, ub, c)),
           self |-> Len(hs) + 1]

contains(hp, h, x) == _get(hp, h.root, x - h.lb, h.u, h.threshold).found

\* PVeb.get: the data, or KeyError
get(hp, h, x) ==
  LET r == _get(hp, h.root, x - h.lb, h.u, h.threshold)
  IN IF r.found THEN [st |-> "value", data |-> r.data] ELSE [st |-> "raise", data |-> NoData]

\* a set that inserts without asking whether the key is stored
setUnchecked(hp, h, x, data) ==
  IF ~_check_x(h, x) THEN HandleRaised(hp, h)
  ELSE LET r == _set(hp, h.root, x - h.lb, h.u, h.threshold, data)
       IN Handle(r.heap, rewrap(h, r.node, h.len + 1))

set(hp, h, x, data) ==
  IF ~_check_x(h, x) THEN HandleRaised(hp, h)
  ELSE IF ~contains(hp, h, x)
  THEN LET r == _set(hp, h.root, x - h.lb, h.u, h.threshold, data)
       IN Handle(r.heap, rewrap(h, r.node, h.len + 1))
  ELSE Handle(hp, h)

pop(hp, h, x) ==
  IF ~_check_x(h, x) THEN HandleRaised(hp, h)
  ELSE IF contains(hp, h, x)
  THEN LET r == _pop(hp, h.root, x - h.lb, h.u, h.threshold)
       IN IF r.err THEN HandleRaised(r.heap, h)
          ELSE Handle(r.heap, rewrap(h, r.node, h.len - 1))
  ELSE Handle(hp, h)

successor(hp, h, x) ==
  IF ~_check_x(h, x) THEN QRaise
  ELSE LET ret == _successor(hp, h.root, x - h.lb, h.u, h.threshold)
       IN IF ret.st = "pair" THEN QPair(ret.k + h.lb, ret.data) ELSE ret

predecessor(hp, h, x) ==
  IF ~_check_x(h, x) THEN QRaise
  ELSE LET ret == _predecessor(hp, h.root, x - h.lb, h.u, h.threshold)
       IN IF ret.st = "pair" THEN QPair(ret.k + h.lb, ret.data) ELSE ret

min(hp, h) ==
  IF h.root # None THEN QPair(h.lb + hp[h.root].min, hp[h.root].min_data) ELSE QNone

max(hp, h) ==
  IF h.root # None THEN QPair(h.lb + hp[h.root].max, hp[h.root].max_data) ELSE QNone

extractMin(hp, h) ==
  IF h.root # None
  THEN LET r == _pop(hp, h.root, hp[h.root].min, h.u, h.threshold)
       IN IF r.err THEN HandleRaised(r.heap, h)
          ELSE Handle(r.heap, rewrap(h, r.node, h.len - 1))
  ELSE Handle(hp, h)

extractMax(hp, h) ==
  IF h.root # None
  THEN LET r == _pop(hp, h.root, hp[h.root].max, h.u, h.threshold)
       IN IF r.err THEN HandleRaised(r.heap, h)
          ELSE Handle(r.heap, rewrap(h, r.node, h.len - 1))
  ELSE Handle(hp, h)

\* the while loop of iter_items, entered with kv
RECURSIVE iterLoop(_, _, _, _)
iterLoop(hp, h, kv, reverse) ==
  IF kv.st = "none" THEN [items |-> <<>>, err |-> FALSE]
  ELSE IF kv.st = "raise" THEN [items |-> <<>>, err |-> TRUE]
  ELSE LET rest == iterLoop(hp, h,
                            IF reverse THEN predecessor(hp, h, kv.k) ELSE successor(hp, h, kv.k),
                            reverse)
       IN [items |-> <<<<kv.k, kv.data>>>> \o rest.items, err |-> rest.err]

\* PVeb.iter_items run to exhaustion: the pairs yielded, and whether it raised
iter_items(hp, h, reverse) ==
  IF h.root # None
  THEN iterLoop(hp, h, IF reverse THEN max(hp, h) ELSE min(hp, h), reverse)
  ELSE [items |-> <<>>, err |-> FALSE]

\* what a caller can observe of a handle: len, contains and get of every
\* key, min, max and the forward iteration
Observe(hp, h) ==
  [len |-> h.len,
   contains |-> [k \in h.lb..h.ub |-> contains(hp, h, k)],
   get |-> [k \in h.lb..h.ub |-> get(hp, h, k)],
   min |-> min(hp, h),
   max |-> max(hp, h),
   iter |-> iter_items(hp, h, FALSE)]

\* ------------------------------------------------------- reference map
\* an ordered map driven by the same calls: set inserts if absent, pop
\* deletes if present, extractMin / extractMax delete the least / greatest
RefSet(m, x, data) == IF x \in DOMAIN m THEN m ELSE PSet(m, x, data)

RefPop(m, x) == PPop(m, x)

RefMin(m) == CHOOSE k \in DOMAIN m : \A j \in DOMAIN m : k <= j

RefMax(m) == CHOOSE k \in DOMAIN m : \A j \in DOMAIN m : k >= j

\* --------------------------------------------------------------- actions
Keys == H.lb..H.ub

\* the value the next set call stores
Fresh == Len(log) + 1

\* log holds the calls that returned a new handle or raised, in order; a call
\* that returned the handle itself changes nothing and is not recorded
Entry(op, x, data, r) ==
  [op |-> op, x |-> x, data |-> data, err |-> r.err, new |-> r.handle # H]

Init ==
  /\ heap = <<>>
  /\ \E cfg \in Configs :
       /\ H = PVeb(cfg.lb, cfg.ub, cfg.c)
       /\ made = [lb |-> cfg.lb, ub |-> cfg.ub, c |-> cfg.c, st |-> new(cfg.lb, cfg.ub, cfg.c).st]
  /\ ref = EmptyMap
  /\ log = <<>>
  /\ handles = <<H>>
  /\ self = 1
  /\ cache = <<>>
  /\ threads = <<>>
  /\ base = <<>>

\* the object a call returned becomes the handle the program holds
Held(d) ==
  /\ handles' = d.handles
  /\ self' = d.self

\* one call on the current handle: r is what it returned
Step(op, x, data, r) ==
  /\ heap' = r.heap
  /\ H' = r.handle
  /\ log' = IF r.handle = H /\ ~r.err THEN log ELSE Append(log, Entry(op, x, data, r))
  /\ Held(derive(handles, self, r))
  /\ UNCHANGED <<made, cache, threads, base>>

Set(x, data) ==
  /\ Len(log) < MaxOps
  /\ Step("set", x, data, set(heap, H, x, data))
  /\ ref' = RefSet(ref, x, data)

Pop(x) ==
  /\ Len(log) < MaxOps
  /\ Step("pop", x, NoData, pop(heap, H, x))
  /\ ref' = RefPop(ref, x)

ExtractMin ==
  /\ Len(log) < MaxOps
  /\ Step("extractMin", 0, NoData, extractMin(heap, H))
  /\ ref' = IF DOMAIN ref = {} THEN ref ELSE RefPop(ref, RefMin(ref))

ExtractMax ==
  /\ Len(log) < MaxOps
  /\ Step("extractMax", 0, NoData, extractMax(heap, H))
  /\ ref' = IF DOMAIN ref = {} THEN ref ELSE RefPop(ref, RefMax(ref))

Next ==
  \/ \E x \in Keys : Set(x, Fresh)
  \/ \E x \in Keys : Pop(x)
  \/ ExtractMin
  \/ ExtractMax

Spec == Init /\ [][Next]_vars

\* ---------------------------------------------------------- construction
\* constructor arguments: valid and invalid ones, universes of 1, 2, 3 and
\* 4 keys; CeilCLogLog covers u = 3 for c = 1 only
NewArgs ==
  {a \in [lb : 0..1, ub : 0..3, c : (0 - 1)..2] : a.c <= 1 \/ a.ub - a.lb + 1 # 3}

InitNew ==
  /\ heap = <<>>
  /\ H = NoHandle
  /\ \E a \in NewArgs : made = [lb |-> a.lb, ub |-> a.ub, c |-> a.c, st |-> "pending"]
  /\ ref = EmptyMap
  /\ log = <<>>
  /\ handles = <<>>
  /\ self = None
  /\ cache = <<>>
  /\ threads = <<>>
  /\ base = <<>>

Constructed(r) ==
  /\ made' = [made EXCEPT !.st = r.st]
  /\ H' = r.handle
  /\ handles' = IF r.st = "ok" THEN <<r.handle>> ELSE handles
  /\ self' = IF r.st = "ok" THEN 1 ELSE self
  /\ UNCHANGED <<heap, ref, log, cache, threads, base>>

Construct ==
  /\ made.st = "pending"
  /\ Constructed(new(made.lb, made.ub, made.c))

Operate ==
  /\ made.st = "ok"
  /\ Next

NextNew ==
  \/ Construct
  \/ Operate

SpecNew == InitNew /\ [][NextNew]_vars

\* --------------------------------------------------------------- factory
\* a call of pveb(lb, ub, c): the program goes on with the handle returned
Produced(lb, ub, c, r) ==
  /\ cache' = r.cache
  /\ Held(r)
  /\ H' = r.handles[r.self]
  /\ log' = Append(log, [op |-> "pveb", x |-> lb, data |-> NoData, err |-> FALSE, new |-> TRUE])
  /\ ref' = EmptyMap
  /\ UNCHANGED <<heap, made, threads, base>>

Factory(lb, ub, c) ==
  /\ Len(log) < MaxOps
  /\ Produced(lb, ub, c, pveb(cache, handles, lb, ub, c))

NextFactory ==
  \/ Next
  \/ \E cfg \in Configs : Factory(cfg.lb, cfg.ub, cfg.c)

SpecFactory == Init /\ [][NextFactory]_vars

\* ------------------------------------------------------------- notions
LogOps == {log[j].op : j \in 1..Len(log)}

\* the keys yielded by a full forward iteration
IterKeys(hp, h) == LET it == iter_items(hp, h, FALSE) IN {it.items[j][1] : j \in 1..Len(it.items)}

\* the keys for which contains returns true
Stored(hp, h) == {k \in h.lb..h.ub : contains(hp, h, k)}

\* C1: after any sequence of set and pop calls from the empty handle, the
\* keys yielded by forward iteration, and the keys for which contains is
\* true, are the keys of the reference map driven by the same calls.
C1_KeysEqualReference ==
  LogOps \subseteq {"set", "pop"} =>
    /\ ~iter_items(heap, H, FALSE).err
    /\ IterKeys(heap, H) = DOMAIN ref
    /\ Stored(heap, H) = DOMAIN ref

\* C2: H.pop(x).contains(x) is false for every reachable handle H and every
\* key x (a pop that raises is left out of the statement).
C2_PopRemoves ==
  \A x \in Keys :
    LET r == pop(heap, H, x)
    IN ~r.err => ~contains(r.heap, r.handle, x)

\* C3: for every key x that H does not contain and every value v,
\* H.set(x, v).contains(x) is true and H.set(x, v).get(x) is v.
C3_SetThenGet ==
  \A x \in Keys, v \in Data :
    ~contains(heap, H, x) =>
      LET r == set(heap, H, x, v)
      IN /\ contains(r.heap, r.handle, x)
         /\ get(r.heap, r.handle, x) = [st |-> "value", data |-> v]

\* C4: persistence.  Every step (a set, pop, extractMin or extractMax on H)
\* leaves every node that existed before it with all its fields as they
\* were, and len, contains, get, min, max and the iteration of the handle H
\* it was applied to are the same after the step as before.
C4_Persistence ==
  [][ /\ Len(heap') >= Len(heap)
      /\ \A a \in 1..Len(heap) : heap'[a] = heap[a]
      /\ Observe(heap', H) = Observe(heap, H) ]_vars

\* C4 witness: a set and a later pop / extractMin / extractMax each returned
\* a new handle, and the current handle still has a root.
C4_Witness ==
  /\ H.root # None
  /\ \E j, k \in 1..Len(log) :
       /\ j < k
       /\ log[j].op = "set" /\ log[j].new
       /\ log[k].op \in {"pop", "extractMin", "extractMax"} /\ log[k].new

\* C5: len is the number of distinct keys a full forward iteration yields.
C5_LenCountsIteration ==
  /\ ~iter_items(heap, H, FALSE).err
  /\ H.len = Cardinality(IterKeys(heap, H))

\* the least / greatest element of a non-empty set of keys
Least(S) == CHOOSE k \in S : \A j \in S : k <= j

Greatest(S) == CHOOSE k \in S : \A j \in S : k >= j

\* (k, H.get(k)) for a stored key k
EntryOf(hp, h, k) == QPair(k, get(hp, h, k).data)

\* C6: for every key x, successor(x) is (k, H.get(k)) for the least stored
\* key k > x, and absent when no stored key is greater than x.  Stated for
\* the handles built by set calls alone.
C6_SuccessorIsLeastGreater ==
  LogOps \subseteq {"set"} =>
    \A x \in Keys :
      LET gt == {k \in Stored(heap, H) : k > x}
      IN successor(heap, H, x) =
           IF gt = {} THEN QNone ELSE EntryOf(heap, H, Least(gt))

\* C7: for every key x, predecessor(x) is (k, H.get(k)) for the greatest
\* stored key k < x, and absent only when no stored key is less than x.
\* Stated for the handles built by set calls alone.
C7_PredecessorIsGreatestLess ==
  LogOps \subseteq {"set"} =>
    \A x \in Keys :
      LET lt == {k \in Stored(heap, H) : k < x}
      IN predecessor(heap, H, x) =
           IF lt = {} THEN QNone ELSE EntryOf(heap, H, Greatest(lt))

\* C8: for every key x that H does not contain, H.set(x, v).pop(x) iterates
\* as H does.
C8_SetPopRoundTrip ==
  \A x \in Keys, v \in Data :
    ~contains(heap, H, x) =>
      LET s == set(heap, H, x, v)
          p == pop(s.heap, s.handle, x)
      IN iter_items(p.heap, p.handle, FALSE) = iter_items(heap, H, FALSE)

\* C9: on a handle with elements extractMin is observably pop(min().key) and
\* extractMax is observably pop(max().key); on a handle with len = 0 both
\* return the handle unchanged.
C9_ExtractIsPop ==
  /\ (H.len > 0 /\ H.root # None) =>
       LET e == extractMin(heap, H)
           p == pop(heap, H, min(heap, H).k)
           f == extractMax(heap, H)
           q == pop(heap, H, max(heap, H).k)
       IN /\ e.err = p.err
          /\ Observe(e.heap, e.handle) = Observe(p.heap, p.handle)
          /\ f.err = q.err
          /\ Observe(f.heap, f.handle) = Observe(q.heap, q.handle)
  /\ H.len = 0 =>
       /\ extractMin(heap, H) = Handle(heap, H)
       /\ extractMax(heap, H) = Handle(heap, H)

\* the calls recorded so far are n set calls followed by at most n
\* extractMin calls
Sets == {j \in 1..Len(log) : log[j].op = "set"}

Draining ==
  /\ \A j \in 1..Len(log) : log[j].op \in {"set", "extractMin"}
  /\ \A j \in Sets, k \in 1..Len(log) : k < j => k \in Sets
  /\ Len(log) <= 2 * Cardinality(Sets)

\* C10: after n set calls of distinct keys and m <= n extractMin calls, no
\* call has raised, min() is the (m+1)-th smallest inserted key while m < n,
\* and when m = n the handle is empty: len = 0, min() absent, nothing
\* iterated.
C10_Drain ==
  Draining =>
    LET n == Cardinality(Sets)
        m == Len(log) - n
        inserted == Sorted({log[j].x : j \in Sets})
    IN /\ \A j \in 1..Len(log) : ~log[j].err
       /\ m < n => min(heap, H).st = "pair" /\ min(heap, H).k = inserted[m + 1]
       /\ m = n => /\ H.len = 0
                   /\ min(heap, H) = QNone
                   /\ iter_items(heap, H, FALSE) = [items |-> <<>>, err |-> FALSE]

\* ------------------------------------------------------------ iteration
\* the keys of a sequence of yielded items ascend / descend strictly
Increasing(items) == \A j \in 1..(Len(items) - 1) : items[j][1] < items[j + 1][1]

Decreasing(items) == \A j \in 1..(Len(items) - 1) : items[j][1] > items[j + 1][1]

\* C11: every successor step moves to a strictly greater key and every
\* predecessor step to a strictly smaller one, so forward iteration yields
\* strictly increasing keys and reverse iteration strictly decreasing keys
\* (each is finite and yields no key twice).
C11_IterationOrdered ==
  /\ \A x \in Keys :
       /\ successor(heap, H, x).st = "pair" => successor(heap, H, x).k > x
       /\ predecessor(heap, H, x).st = "pair" => predecessor(heap, H, x).k < x
  /\ Increasing(iter_items(heap, H, FALSE).items)
  /\ Decreasing(iter_items(heap, H, TRUE).items)

\* a three-level tree whose two iterations both yield several items
C11_Witness ==
  /\ H.u = 8
  /\ Len(iter_items(heap, H, FALSE).items) >= 3
  /\ Len(iter_items(heap, H, TRUE).items) >= 2

\* C12: set of a key the handle contains returns the handle itself: nothing
\* is allocated (so every iteration is as before), and len and get of that key
\* are as before.
C12_SetOfStoredKeyReturnsSelf ==
  \A x \in Stored(heap, H) : \A v \in {Fresh, NoData} :
    /\ set(heap, H, x, v) = Handle(heap, H)
    /\ set(heap, H, x, v).handle.len = H.len
    /\ get(set(heap, H, x, v).heap, set(heap, H, x, v).handle, x) = get(heap, H, x)

\* a handle that contains a key strictly between its min and its max
C12_Witness ==
  \E x \in Stored(heap, H) :
    /\ min(heap, H).st = "pair" /\ min(heap, H).k < x
    /\ max(heap, H).st = "pair" /\ x < max(heap, H).k

\* C13: with an in-range key that is not stored, contains, successor,
\* predecessor, pop and set complete without an internal error, and so do
\* min, max, extractMin and extractMax on a tree with no elements.
C13_NoInternalError ==
  /\ \A x \in Keys \ Stored(heap, H) :
       /\ successor(heap, H, x).st # "raise"
       /\ predecessor(heap, H, x).st # "raise"
       /\ ~pop(heap, H, x).err
       /\ ~set(heap, H, x, Fresh).err
  /\ (H.len = 0 /\ Stored(heap, H) = {}) =>
       /\ min(heap, H).st # "raise"
       /\ max(heap, H).st # "raise"
       /\ ~extractMin(heap, H).err
       /\ ~extractMax(heap, H).err

\* C15: PVeb(lb, ub, c) succeeds exactly when lb <= ub and c >= 1, universes
\* of 1, 2 and 3 keys included, and what it returns is an empty handle (root
\* absent, len 0) with threshold >= 2.
C15_Construction ==
  made.st # "pending" =>
    /\ made.st = "ok" <=> (made.lb <= made.ub /\ made.c >= 1)
    /\ made.st = "ok" => H.threshold >= 2
    /\ (made.st = "ok" /\ log = <<>>) => (H.root = None /\ H.len = 0)

\* C20: pveb(lb, ub, c) called again with equal arguments returns the same
\* object, and every memoised object is still an empty handle (len 0, root
\* absent, iteration yields nothing), whatever was derived from it.
C20_FactoryHandleStaysEmpty ==
  /\ \A z \in DOMAIN cache :
       /\ handles[cache[z]] = PVeb(z[1], z[2], z[3])
       /\ iter_items(heap, handles[cache[z]], FALSE).items = <<>>
       /\ iter_items(heap, handles[cache[z]], TRUE).items = <<>>
       /\ pveb(cache, handles, z[1], z[2], z[3]) = [cache |-> cache, handles |-> handles, self |-> cache[z]]
  /\ \A cfg \in Configs :
       pveb(pveb(cache, handles, cfg.lb, cfg.ub, cfg.c).cache,
            pveb(cache, handles, cfg.lb, cfg.ub, cfg.c).handles,
            cfg.lb, cfg.ub, cfg.c).self
         = pveb(cache, handles, cfg.lb, cfg.ub, cfg.c).self

\* pveb has just returned the memoised handle again, after a handle with two
\* keys had been derived from it
C20_Witness ==
  /\ Len(log) >= 4
  /\ log[1].op = "pveb" /\ log[2].op = "set" /\ log[3].op \in {"set", "pop"} /\ log[4].op = "pveb"
  /\ log[4].x = log[1].x
  /\ self = cache[<<H.lb, H.ub, H.c>>]
  /\ Len(handles) >= 4

\* --------------------------------------------------------------- threads
\* keys stored in the parent handle before the threads start
ParentSize == 2

\* the frame of a call of _set or _pop: its arguments, its position, and its
\* locals c, i and cl (the cluster map read before the inner call of line 134)
Frame(fn, V, x, u, data) ==
  [fn |-> fn, pc |-> "enter", V |-> V, x |-> x, u |-> u, data |-> data,
   c |-> 0, i |-> 0, cl |-> EmptyMap]

\* the outcomes of one step of a thread th over the heap hp: go on in the
\* same frame, call, return v to the caller, raise
Goto(hp, th, f) == [heap |-> hp, thread |-> [th EXCEPT !.stack[Len(th.stack)] = f]]

Call(hp, th, f, g) ==
  [heap |-> hp,
   thread |-> [th EXCEPT !.stack = Append([th.stack EXCEPT ![Len(th.stack)] = f], g)]]

Return(hp, th, v) ==
  [heap |-> hp,
   thread |-> [th EXCEPT !.stack = SubSeq(th.stack, 1, Len(th.stack) - 1), !.ret = v]]

Raise(hp, th) == [heap |-> hp, thread |-> [th EXCEPT !.stack = <<>>, !.st = "raised"]]

\* lines 122-126 and 137-140: x against min and max of the copy
setMinMax(hp, f) ==
  IF f.x < hp[f.V].min THEN [hp EXCEPT ![f.V].min = f.x, ![f.V].min_data = f.data]
  ELSE IF f.x > hp[f.V].max THEN [hp EXCEPT ![f.V].max = f.x, ![f.V].max_data = f.data]
  ELSE hp

\* lines 122-129: the frame after the swap with min, with c and i
setCoords(hp, f) ==
  [f EXCEPT !.x = IF f.x < hp[f.V].min THEN hp[f.V].min ELSE f.x,
            !.data = IF f.x < hp[f.V].min THEN hp[f.V].min_data ELSE f.data,
            !.c = _hierarchical_coords(IF f.x < hp[f.V].min THEN hp[f.V].min ELSE f.x, CeilSqrt(f.u))[1],
            !.i = _hierarchical_coords(IF f.x < hp[f.V].min THEN hp[f.V].min ELSE f.x, CeilSqrt(f.u))[2],
            !.pc = "summary"]

\* one step of the frame f of _set
_setStep(hp, th, f, threshold) ==
  CASE f.pc = "enter" ->
         IF f.V = None
         THEN Return(_Node(hp, f.x, f.u, threshold, f.data).heap, th,
                     _Node(hp, f.x, f.u, threshold, f.data).node)
         ELSE IF f.x = hp[f.V].min \/ f.x = hp[f.V].max THEN Return(hp, th, f.V)
         ELSE Goto(copy(hp, f.V).heap, th, [f EXCEPT !.V = copy(hp, f.V).node, !.pc = "fix"])
    [] f.pc = "fix" ->
         IF f.u > threshold
         THEN Goto(setMinMax(hp, f), th, setCoords(hp, f))
         ELSE Goto(setMinMax(hp, f), th, [f EXCEPT !.pc = "map"])
    [] f.pc = "summary" ->
         IF ~PIn(hp[f.V].cluster, f.c)
         THEN Call(hp, th, [f EXCEPT !.pc = "summary_ret"],
                   Frame("set", hp[f.V].summary, f.c, CeilSqrt(f.u), f.data))
         ELSE Goto(hp, th, [f EXCEPT !.pc = "child"])
    [] f.pc = "summary_ret" ->
         Goto([hp EXCEPT ![f.V].summary = th.ret], th, [f EXCEPT !.pc = "child"])
    [] f.pc = "child" ->
         Call(hp, th, [f EXCEPT !.pc = "child_ret", !.cl = hp[f.V].cluster],
              Frame("set", PGet(hp[f.V].cluster, f.c, None), f.i, CeilSqrt(f.u), f.data))
    [] f.pc = "child_ret" ->
         Return([hp EXCEPT ![f.V].cluster = PSet(f.cl, f.c, th.ret)], th, f.V)
    [] f.pc = "map" ->
         Return([hp EXCEPT ![f.V].map = PSet(hp[f.V].map, f.x, f.data)], th, f.V)

\* lines 149-156: the min of a branch is popped, the min of the first
\* cluster takes its place
popPullUp(hp, th, f, c) ==
  IF ~PIn(hp[f.V].cluster, c) THEN Raise(hp, th)
  ELSE Goto([hp EXCEPT ![f.V].min = _index_of(c, hp[hp[f.V].cluster[c]].min, CeilSqrt(f.u)),
                       ![f.V].min_data = hp[hp[f.V].cluster[c]].min_data],
            th,
            [f EXCEPT !.x = _index_of(c, hp[hp[f.V].cluster[c]].min, CeilSqrt(f.u)),
                      !.pc = "child"])

\* lines 162-168 as a step
popMax(hp, th, f, r) == IF r.err THEN Raise(hp, th) ELSE Return(r.heap, th, f.V)

\* one step of the frame f of _pop
_popStep(hp, th, f, threshold) ==
  CASE f.pc = "enter" ->
         IF f.V = None THEN Return(hp, th, None)
         ELSE Goto(copy(hp, f.V).heap, th, [f EXCEPT !.V = copy(hp, f.V).node, !.pc = "body"])
    [] f.pc = "body" ->
         IF f.u > threshold
         THEN IF f.x = hp[f.V].min
              THEN IF hp[f.V].summary # None
                   THEN popPullUp(hp, th, f, hp[hp[f.V].summary].min)
                   ELSE Return(hp, th, None)
              ELSE Goto(hp, th, [f EXCEPT !.pc = "child"])
         ELSE IF ~PIn(hp[f.V].map, f.x) THEN Raise(hp, th)
              ELSE Return([hp EXCEPT ![f.V].map = PPop(hp[f.V].map, f.x)], th, f.V)
    [] f.pc = "child" ->
         IF ~PIn(hp[f.V].cluster, _hierarchical_coords(f.x, CeilSqrt(f.u))[1]) THEN Raise(hp, th)
         ELSE Call(hp, th,
                   [f EXCEPT !.c = _hierarchical_coords(f.x, CeilSqrt(f.u))[1],
                             !.i = _hierarchical_coords(f.x, CeilSqrt(f.u))[2],
                             !.pc = "child_ret"],
                   Frame("pop", hp[f.V].cluster[_hierarchical_coords(f.x, CeilSqrt(f.u))[1]],
                         _hierarchical_coords(f.x, CeilSqrt(f.u))[2], CeilSqrt(f.u), NoData))
    [] f.pc = "child_ret" ->
         IF th.ret = None
         THEN Call([hp EXCEPT ![f.V].cluster = PPop(hp[f.V].cluster, f.c)], th,
                   [f EXCEPT !.pc = "summary_ret"],
                   Frame("pop", hp[f.V].summary, f.c, CeilSqrt(f.u), NoData))
         ELSE Goto(hp, th, [f EXCEPT !.pc = "max"])
    [] f.pc = "summary_ret" ->
         Goto([hp EXCEPT ![f.V].summary = th.ret], th, [f EXCEPT !.pc = "max"])
    [] f.pc = "max" ->
         popMax(hp, th, f, popRefreshMax(hp, f.V, CeilSqrt(f.u)))

\* the thread returns the handle it was called on
Same(hp, h, th) == [heap |-> hp, thread |-> [th EXCEPT !.st = "done", !.result = h]]

\* the thread enters _set or _pop on the root of h
Enter(hp, th, f) == [heap |-> hp, thread |-> [th EXCEPT !.st = "run", !.stack = <<f>>]]

\* the first step of a call on the handle h: lines 241-243, 252-254, 294-295,
\* 309-310; a read looks at everything h shows
Begin(hp, h, th) ==
  CASE th.op = "set" ->
         IF ~contains(hp, h, th.x)
         THEN Enter(hp, th, Frame("set", h.root, th.x - h.lb, h.u, th.data))
         ELSE Same(hp, h, th)
    [] th.op = "pop" ->
         IF contains(hp, h, th.x)
         THEN Enter(hp, th, Frame("pop", h.root, th.x - h.lb, h.u, NoData))
         ELSE Same(hp, h, th)
    [] th.op = "extractMin" ->
         IF h.root # None
         THEN Enter(hp, th, Frame("pop", h.root, hp[h.root].min, h.u, NoData))
         ELSE Same(hp, h, th)
    [] th.op = "extractMax" ->
         IF h.root # None
         THEN Enter(hp, th, Frame("pop", h.root, hp[h.root].max, h.u, NoData))
         ELSE Same(hp, h, th)
    [] th.op = "read" ->
         [heap |-> hp, thread |-> [th EXCEPT !.st = "done", !.result = h, !.seen = Observe(hp, h)]]

\* the last step: the new PVeb around the root returned
End(hp, h, th) ==
  [heap |-> hp,
   thread |-> [th EXCEPT !.st = "done",
                         !.result = rewrap(h, th.ret, IF th.op = "set" THEN h.len + 1 ELSE h.len - 1)]]

\* one step of thread th
Exec(hp, h, th) ==
  IF th.st = "idle" THEN Begin(hp, h, th)
  ELSE IF th.stack = <<>> THEN End(hp, h, th)
  ELSE IF th.stack[Len(th.stack)].fn = "set"
  THEN _setStep(hp, th, th.stack[Len(th.stack)], h.threshold)
  ELSE _popStep(hp, th, th.stack[Len(th.stack)], h.threshold)

\* the parent handle: the keys of ks set one after the other, the j-th with
\* the value j
RECURSIVE Built(_, _, _)
Built(r, ks, j) ==
  IF j > Len(ks) THEN r ELSE Built(set(r.heap, r.handle, ks[j], j), ks, j + 1)

\* the ParentSize keys of the parent, in the order they are set: ascending
\* (the nodes a set-only tree is made of depend on the keys, not on their order)
ParentKeys(lb, ub) ==
  {ks \in [1..ParentSize -> lb..ub] : \A a, b \in 1..ParentSize : a < b => ks[a] < ks[b]}

\* (lb, ub, c) of the parents the threads call on: a leaf root, a branch root
\* over leaves, and a branch root over branches (u = 5 > 2, children u = 3 > 2,
\* grandchildren u = 2)
ThreadConfigs ==
  { [lb |-> 0, ub |-> 3, c |-> 4],
    [lb |-> 2, ub |-> 5, c |-> 1],
    [lb |-> 0, ub |-> 4, c |-> 1] }

\* the calls a thread may make, numbered: set and pop of every key,
\* extractMin, extractMax, and a read
ThreadCalls(lb, ub) ==
  [j \in 1..(2 * (ub - lb + 1) + 3) |->
     IF j <= ub - lb + 1 THEN [op |-> "set", x |-> lb + j - 1]
     ELSE IF j <= 2 * (ub - lb + 1) THEN [op |-> "pop", x |-> lb + j - (ub - lb + 1) - 1]
     ELSE [op |-> <<"extractMin", "extractMax", "read">>[j - 2 * (ub - lb + 1)], x |-> lb]]

\* what the call returns when it runs alone on the parent
Alone(hp, h, call, data) ==
  CASE call.op = "set" -> set(hp, h, call.x, data)
    [] call.op = "pop" -> pop(hp, h, call.x)
    [] call.op = "extractMin" -> extractMin(hp, h)
    [] call.op = "extractMax" -> extractMax(hp, h)
    [] call.op = "read" -> Handle(hp, h)

Expect(r) == [err |-> r.err, obs |-> Observe(r.heap, r.handle)]

Thread(hp, h, call, data) ==
  [op |-> call.op, x |-> call.x, data |-> data, st |-> "idle", stack |-> <<>>, ret |-> None,
   result |-> h, seen |-> Observe(hp, h), alone |-> Expect(Alone(hp, h, call, data))]

\* two threads are about to call on the parent r.handle
Started(r, call1, call2) ==
  /\ heap = r.heap
  /\ H = r.handle
  /\ handles = <<r.handle>>
  /\ base = [heap |-> r.heap, obs |-> Observe(r.heap, r.handle)]
  /\ threads = <<Thread(r.heap, r.handle, call1, ParentSize + 1),
                 Thread(r.heap, r.handle, call2, ParentSize + 2)>>

\* the two threads run the same code on the same parent, so of the two
\* orders of a pair of calls one is kept
InitThreads ==
  /\ \E cfg \in ThreadConfigs : \E ks \in ParentKeys(cfg.lb, cfg.ub) :
       \E j1, j2 \in DOMAIN ThreadCalls(cfg.lb, cfg.ub) :
         /\ j1 <= j2
         /\ made = [lb |-> cfg.lb, ub |-> cfg.ub, c |-> cfg.c, st |-> new(cfg.lb, cfg.ub, cfg.c).st]
         /\ Started(Built(Handle(<<>>, PVeb(cfg.lb, cfg.ub, cfg.c)), ks, 1),
                    ThreadCalls(cfg.lb, cfg.ub)[j1], ThreadCalls(cfg.lb, cfg.ub)[j2])
  /\ ref = EmptyMap
  /\ log = <<>>
  /\ self = 1
  /\ cache = <<>>

\* thread t has taken one step: r is the heap and the thread after it
Ran(t, r) ==
  /\ heap' = r.heap
  /\ threads' = [threads EXCEPT ![t] = r.thread]
  /\ UNCHANGED <<H, ref, log, made, handles, self, cache, base>>

Run(t) ==
  /\ threads[t].st \in {"idle", "run"}
  /\ Ran(t, Exec(heap, H, threads[t]))

NextThreads == \E t \in {1, 2} : Run(t)

SpecThreads == InitThreads /\ [][NextThreads]_vars

\* ---------------------------------------------------------- grown handles
\* the value of the key that is already stored when the calls begin: it is
\* none of the values 1..MaxOps that the recorded set calls store
Seed == MaxOps + 1

\* the program has stored one key: r is what that set call returned
Grown(x, r) ==
  /\ heap = r.heap
  /\ H = r.handle
  /\ ref = RefSet(EmptyMap, x, Seed)
  /\ handles = <<PVeb(made.lb, made.ub, made.c), r.handle>>
  /\ self = 2

InitGrown ==
  /\ \E cfg \in Configs : \E x \in cfg.lb..cfg.ub :
       /\ made = [lb |-> cfg.lb, ub |-> cfg.ub, c |-> cfg.c, st |-> new(cfg.lb, cfg.ub, cfg.c).st]
       /\ Grown(x, set(<<>>, PVeb(cfg.lb, cfg.ub, cfg.c), x, Seed))
  /\ log = <<>>
  /\ cache = <<>>
  /\ threads = <<>>
  /\ base = <<>>

SpecGrown == InitGrown /\ [][Next]_vars

\* ------------------------------------------------------- node invariants
\* the nodes of the tree below V, each with the universe it is used with
RECURSIVE Nodes(_, _, _, _)
Nodes(hp, V, u, threshold) ==
  IF V = None THEN {}
  ELSE IF u > threshold
  THEN {<<V, u>>}
       \cup Nodes(hp, hp[V].summary, CeilSqrt(u), threshold)
       \cup UNION {Nodes(hp, hp[V].cluster[c], CeilSqrt(u), threshold) : c \in DOMAIN hp[V].cluster}
  ELSE {<<V, u>>}

Branches(hp, h) == {n \in Nodes(hp, h.root, h.u, h.threshold) : n[2] > h.threshold}

Leaves(hp, h) == {n \in Nodes(hp, h.root, h.u, h.threshold) : n[2] <= h.threshold}

\* x is found in the cluster of branch node V, under its combined key
InCluster(hp, V, x, u, threshold) ==
  LET ci == _hierarchical_coords(x, CeilSqrt(u))
  IN /\ PIn(hp[V].cluster, ci[1])
     /\ _get(hp, hp[V].cluster[ci[1]], ci[2], CeilSqrt(u), threshold).found

\* the max a branch node should have: summary.max * u' + cluster[summary.max].max
MaxBySummary(hp, V, u) ==
  /\ hp[V].summary # None
  /\ PIn(hp[V].cluster, hp[hp[V].summary].max)
  /\ hp[V].max = _index_of(hp[hp[V].summary].max, hp[hp[V].cluster[hp[hp[V].summary].max]].max, CeilSqrt(u))

\* C16: in every branch node of the handle's tree, min is not in the cluster
\* and max is in the cluster and is summary.max * u' + cluster[summary.max].max,
\* unless min = max, and then the cluster is empty and the summary absent.
C16_BranchMinMaxShortcut ==
  \A n \in Branches(heap, H) :
    IF heap[n[1]].min = heap[n[1]].max
    THEN heap[n[1]].cluster = EmptyMap /\ heap[n[1]].summary = None
    ELSE /\ ~InCluster(heap, n[1], heap[n[1]].min, n[2], H.threshold)
         /\ InCluster(heap, n[1], heap[n[1]].max, n[2], H.threshold)
         /\ MaxBySummary(heap, n[1], n[2])

\* a child node that holds at least one key
NonEmpty(hp, V, u, threshold) == V # None /\ (u > threshold \/ hp[V].map # EmptyMap)

\* the cluster indices found in the summary of branch node V
SummaryKeys(hp, V, u, threshold) ==
  {c \in 0..(CeilSqrt(u) - 1) : _get(hp, hp[V].summary, c, CeilSqrt(u), threshold).found}

\* C17: in every branch node of the handle's tree, the keys of the summary are
\* the cluster indices whose child is non-empty, and an empty cluster map
\* goes with an absent summary.
C17_SummaryFidelity ==
  \A n \in Branches(heap, H) :
    /\ SummaryKeys(heap, n[1], n[2], H.threshold)
         = {c \in DOMAIN heap[n[1]].cluster :
              NonEmpty(heap, heap[n[1]].cluster[c], CeilSqrt(n[2]), H.threshold)}
    /\ heap[n[1]].cluster = EmptyMap => heap[n[1]].summary = None

\* C18: in every leaf node of the handle's tree the map is non-empty, min and
\* max are its smallest and largest key and min_data, max_data their values;
\* popping the only key of a leaf returns absent.
C18_LeafComplete ==
  \A n \in Leaves(heap, H) :
    /\ heap[n[1]].map # EmptyMap
    /\ heap[n[1]].min = Least(DOMAIN heap[n[1]].map)
    /\ heap[n[1]].max = Greatest(DOMAIN heap[n[1]].map)
    /\ heap[n[1]].min_data = heap[n[1]].map[heap[n[1]].min]
    /\ heap[n[1]].max_data = heap[n[1]].map[heap[n[1]].max]
    /\ Cardinality(DOMAIN heap[n[1]].map) = 1 =>
         _pop(heap, n[1], heap[n[1]].min, n[2], H.threshold).node = None

\* the recorded set calls of key k, in order
SetsOf(k) == {j \in 1..Len(log) : log[j].op = "set" /\ log[j].x = k}

\* C19: in a handle built from the empty one by set calls only, contains(k)
\* is true exactly for the keys that were set, and get(k) returns the value
\* of the first set of k.
C19_SetOnlyContainsAndGet ==
  LogOps \subseteq {"set"} =>
    \A k \in Keys :
      /\ contains(heap, H, k) <=> SetsOf(k) # {}
      /\ SetsOf(k) # {} =>
           get(heap, H, k) = [st |-> "value", data |-> log[Least(SetsOf(k))].data]
      /\ SetsOf(k) = {} => get(heap, H, k).st = "raise"

\* four keys set, in a leaf root, in a branch root over leaves or in a branch
\* root over branches, one of them neither the min nor the max
C19_Witness ==
  /\ LogOps = {"set"}
  /\ Len(log) = MaxOps
  /\ \E k \in Keys : SetsOf(k) # {} /\ min(heap, H).k < k /\ k < max(heap, H).k

\* C14: while two threads run their calls on the same parent handle, in any
\* interleaving of their steps, no node of the parent changes and a read sees
\* what the parent showed before; a thread that is done holds a handle that
\* shows exactly what its call returns when it runs alone, and a thread
\* raises only if its call raises alone.
C14_ThreadsIndependent ==
  /\ \A a \in 1..Len(base.heap) : heap[a] = base.heap[a]
  /\ \A t \in DOMAIN threads :
       /\ threads[t].seen = base.obs
       /\ threads[t].st = "raised" => threads[t].alone.err
       /\ threads[t].st = "done" =>
            /\ ~threads[t].alone.err
            /\ Observe(heap, threads[t].result) = threads[t].alone.obs

\* both threads are done, each with a new handle, and their steps alternated
\* inside _set / _pop: the nodes they allocated lie interleaved in the heap
C14_Witness ==
  /\ threads # <<>>
  /\ \A t \in DOMAIN threads : threads[t].st = "done" /\ threads[t].result # H
  /\ H.len = ParentSize
  /\ \E t, o \in DOMAIN threads :
       /\ threads[t].result.root < threads[o].result.root
       /\ \E a \in (threads[o].result.root + 1)..Len(heap) :
            a \in {n[1] : n \in Nodes(heap, threads[t].result.root, H.u, H.threshold)}


====
